---- MODULE Spec2Model ----
(***************************************************************************)
(* A model of src/conceptnet.py: the ConceptNet fact collector             *)
(* get_conceptnet_facts_for_image and its helpers.                         *)
(*                                                                         *)
(* Python strings are sequences of one-character strings, so that strip,   *)
(* lower, startswith, endswith, replace and the regular expressions are    *)
(* computed character by character as the code computes them.  Weights are *)
(* integers (2 stands for 2.0).  JSON values are tagged records.           *)
(***************************************************************************)
EXTENDS Integers, Sequences, FiniteSets, TLC

VARIABLES
    pc,          \* position of get_conceptnet_facts_for_image
    objects,     \* argument objects
    relations,   \* argument relations (NoneVal or a set of labels)
    min_weight,  \* argument min_weight
    max_facts,   \* argument max_facts
    remote,      \* the edge records the remote service may answer with
    rels,        \* local rels
    objs,        \* local objs
    idx,         \* loop position: index into objs, then into the pairs
    consumed,    \* edge records of the current response the loop has read
    best,        \* local best, a dict kept in insertion order
    error,       \* the exception that ended the call, or "none"
    ranked,      \* local ranked
    sentences,   \* the returned list
    requests,    \* history: every HTTP GET issued so far, in order
    outcomes,    \* history: what each GET of requests came back with
    lastEdge,    \* history: "none", or whether the edge record just read has
                 \* its three labels ("labelled") or not ("unlabelled")
    accepted,    \* history: [key, w] of every edge that passed keep_edge with
                 \* three non-empty labels
    noun,        \* argument of _maybe_article
    articled,    \* result of _maybe_article
    edgesA,      \* order comparison: the fetched edges in the order of the first run
    edgesB,      \* order comparison: the same edges in the order of the second run
    bestB,       \* order comparison: dict best of the second run
    sentencesB   \* order comparison: returned list of the second run

vars == <<pc, objects, relations, min_weight, max_facts, remote, rels, objs, idx,
          consumed, best, error, ranked, sentences, requests, outcomes, lastEdge,
          accepted, noun, articled, edgesA, edgesB, bestB, sentencesB>>

(***************************************************************************)
(* Bounds of the model.                                                    *)
(***************************************************************************)
MaxObjs == 3        \* longest objects argument
MaxEdges == 2       \* most edge records in one response
MaxFacts == 2       \* largest max_facts argument
MaxMinWeight == 2   \* largest min_weight argument
MaxLen == 5         \* longest argument of _maybe_article
MaxOrderEdges == 3  \* most fetched edges of the two-order comparison

(***************************************************************************)
(* Python str, character by character.                                     *)
(***************************************************************************)
LowerLetters == <<"a","b","c","d","e","f","g","h","i","j","k","l","m",
                  "n","o","p","q","r","s","t","u","v","w","x","y","z">>

UpperLetters == <<"A","B","C","D","E","F","G","H","I","J","K","L","M",
                  "N","O","P","Q","R","S","T","U","V","W","X","Y","Z">>

Digits == <<"0","1","2","3","4","5","6","7","8","9">>

Whitespace == {" ", "\t", "\n"}

\* str.lower() and str.upper() of the letters
LowerOf == [c \in {UpperLetters[i] : i \in 1..26} |->
               LowerLetters[CHOOSE i \in 1..26 : UpperLetters[i] = c]]

UpperOf == [c \in {LowerLetters[i] : i \in 1..26} |->
               UpperLetters[CHOOSE i \in 1..26 : LowerLetters[i] = c]]

\* str.lower() of one character
LowerChar(c) == IF c \in DOMAIN LowerOf THEN LowerOf[c] ELSE c

\* str.upper() of one character
UpperChar(c) == IF c \in DOMAIN UpperOf THEN UpperOf[c] ELSE c

\* str.lower()
Lower(s) == [i \in 1..Len(s) |-> LowerChar(s[i])]

RECURSIVE LStrip(_)
LStrip(s) == IF s # <<>> /\ Head(s) \in Whitespace THEN LStrip(Tail(s)) ELSE s

RECURSIVE RStrip(_)
RStrip(s) ==
    IF s # <<>> /\ s[Len(s)] \in Whitespace THEN RStrip(SubSeq(s, 1, Len(s) - 1)) ELSE s

\* str.strip()
Strip(s) == RStrip(LStrip(s))

\* str.startswith(p)
StartsWith(s, p) == Len(s) >= Len(p) /\ SubSeq(s, 1, Len(p)) = p

\* str.endswith(p)
EndsWith(s, p) == Len(s) >= Len(p) /\ SubSeq(s, Len(s) - Len(p) + 1, Len(s)) = p

\* str.replace("_", " ")
ReplaceUnderscore(s) == [i \in 1..Len(s) |-> IF s[i] = "_" THEN " " ELSE s[i]]

\* re.sub(r"\s+", r, s): every run of whitespace becomes the one character r
RECURSIVE CollapseWs(_, _)
CollapseWs(s, r) ==
    IF s = <<>> THEN <<>>
    ELSE IF Head(s) \in Whitespace
         THEN IF Len(s) >= 2 /\ s[2] \in Whitespace
              THEN CollapseWs(Tail(s), r)
              ELSE <<r>> \o CollapseWs(Tail(s), r)
         ELSE <<Head(s)>> \o CollapseWs(Tail(s), r)

\* every sequence over S of length at most n
SeqsUpTo(S, n) == UNION {[1..k -> S] : k \in 0..n}

(***************************************************************************)
(* _choose_article and _maybe_article                                      *)
(***************************************************************************)
Vowels == {"a", "e", "i", "o", "u"}

Determiners == { <<"a"," ">>, <<"a","n"," ">>, <<"t","h","e"," ">>,
                 <<"t","h","i","s"," ">>, <<"t","h","a","t"," ">>,
                 <<"t","h","e","s","e"," ">>, <<"t","h","o","s","e"," ">> }

\* mutant: the vowel test is lost
ChooseArticleAlwaysA(phrase) == <<"a">>

_choose_article(phrase) ==
    LET w == Lower(Strip(phrase))
    IN  IF w = <<>> THEN <<"a">>
        ELSE IF w[1] \in Vowels THEN <<"a","n">> ELSE <<"a">>

_maybe_article(n0) ==
    LET n == Strip(n0)
        lower == Lower(n)
    IN  IF n = <<>> THEN n
        ELSE IF \E d \in Determiners : StartsWith(lower, d) THEN n
        ELSE IF EndsWith(lower, <<"s">>)
                /\ ~(EndsWith(lower, <<"s","s">>) \/ EndsWith(lower, <<"u","s">>))
             THEN n
        ELSE _choose_article(n) \o <<" ">> \o n

(***************************************************************************)
(* JSON values as the code reads them: a key of a dict is absent, or its   *)
(* value is null, a string, a number or a dict.                            *)
(***************************************************************************)
Absent == [t |-> "absent"]

Null == [t |-> "null"]

JStr(s) == [t |-> "str", v |-> s]

JNum(n) == [t |-> "num", v |-> n]

\* a node object {"label": ..., "@id": ...}
JNode(label, id) == [t |-> "dict", label |-> label, id |-> id]

\* a relation object {"label": ...}
JRel(label) == [t |-> "dict", label |-> label]

\* an edge record {"start": ..., "rel": ..., "end": ..., "weight": ...}
JEdge(start, rel, end, weight) == [start |-> start, rel |-> rel, end |-> end, weight |-> weight]

\* Python truthiness of a JSON value
Truthy(j) ==
    CASE j.t = "str" -> j.v # <<>>
      [] j.t = "num" -> j.v # 0
      [] j.t = "dict" -> TRUE
      [] OTHER -> FALSE

\* str(n) of a small integer
RECURSIVE NatToStr(_)
NatToStr(n) == IF n < 10 THEN <<Digits[n + 1]>> ELSE NatToStr(n \div 10) \o <<Digits[(n % 10) + 1]>>

\* str(x) of a JSON scalar
PyStr(j) ==
    CASE j.t = "str" -> j.v
      [] j.t = "num" -> IF j.v < 0 THEN <<"-">> \o NatToStr(-j.v) ELSE NatToStr(j.v)
      [] OTHER -> <<"?">>

\* s.split("/")[-1]
RECURSIVE LastSegment(_)
LastSegment(s) ==
    IF \E i \in 1..Len(s) : s[i] = "/"
    THEN LastSegment(SubSeq(s, (CHOOSE i \in 1..Len(s) : s[i] = "/") + 1, Len(s)))
    ELSE s

(***************************************************************************)
(* _norm, _to_en_uri, _as_label, _weight                                   *)
(***************************************************************************)
IdChars == {LowerLetters[i] : i \in 1..Len(LowerLetters)}
               \cup {Digits[i] : i \in 1..Len(Digits)} \cup {"_"}

RECURSIVE KeepIdChars(_)
KeepIdChars(s) ==
    IF s = <<>> THEN <<>>
    ELSE IF Head(s) \in IdChars THEN <<Head(s)>> \o KeepIdChars(Tail(s))
    ELSE KeepIdChars(Tail(s))

_norm(s) == KeepIdChars(CollapseWs(Lower(Strip(s)), "_"))

_to_en_uri(concept) == <<"/","c","/","e","n","/">> \o _norm(concept)

\* e.get("start", {}) and e.get("end", {}): the default of an absent key is {}
GetOrEmptyDict(j) == IF j.t = "absent" THEN JNode(Absent, Absent) ELSE j

_as_label(end) ==
    IF end.t = "dict"
    THEN IF Truthy(end.label) THEN Strip(PyStr(end.label))
         ELSE IF end.id.t = "str" THEN Strip(ReplaceUnderscore(LastSegment(end.id.v)))
         ELSE <<>>
    ELSE <<>>

_weight(edge) == IF edge.weight.t = "num" THEN edge.weight.v ELSE 0

(***************************************************************************)
(* keep_edge and add_edge_fact, the closures of the top-level function.    *)
(* A dict is a sequence of [key, w] entries in insertion order.            *)
(***************************************************************************)
DEFAULT_RELATIONS ==
    { <<"I","s","A">>, <<"P","a","r","t","O","f">>, <<"H","a","s","A">>,
      <<"U","s","e","d","F","o","r">>, <<"C","a","p","a","b","l","e","O","f">>,
      <<"R","e","c","e","i","v","e","s","A","c","t","i","o","n">>,
      <<"A","t","L","o","c","a","t","i","o","n">>,
      <<"L","o","c","a","t","e","d","N","e","a","r">>,
      <<"H","a","s","P","r","o","p","e","r","t","y">> }

\* e.get("rel", {}).get("label") raises AttributeError unless rel is absent or a dict
RelRaises(e) == e.rel.t \notin {"absent", "dict"}

\* e.get("rel", {}).get("label"): the label, or Null for None
RelLabel(e) ==
    IF e.rel.t = "dict" /\ e.rel.label.t # "absent" THEN e.rel.label ELSE Null

keep_edge(e, rs, mw) ==
    LET rel == RelLabel(e)
    IN  /\ rel.t = "str"
        /\ rel.v \in rs
        /\ _weight(e) >= mw

HasKey(b, key) == \E i \in 1..Len(b) : b[i].key = key

\* best.get(key, -1.0)
BestGet(b, key) == IF HasKey(b, key) THEN b[CHOOSE i \in 1..Len(b) : b[i].key = key].w ELSE -1

\* best[key] = w: a new key goes last, an old key keeps its place
BestSet(b, key, w) ==
    IF HasKey(b, key)
    THEN [i \in 1..Len(b) |-> IF b[i].key = key THEN [key |-> key, w |-> w] ELSE b[i]]
    ELSE Append(b, [key |-> key, w |-> w])

FactKey(e) ==
    <<_as_label(GetOrEmptyDict(e.start)),
      (IF RelLabel(e).t = "str" THEN RelLabel(e).v ELSE <<>>),
      _as_label(GetOrEmptyDict(e.end))>>

\* mutant: the last weight seen wins
AddEdgeFactLastWins(b, e) ==
    LET key == FactKey(e)
    IN  IF key[1] = <<>> \/ key[2] = <<>> \/ key[3] = <<>> THEN b
        ELSE BestSet(b, key, _weight(e))

\* mutant: the first weight seen wins
AddEdgeFactFirstWins(b, e) ==
    LET key == FactKey(e)
    IN  IF key[1] = <<>> \/ key[2] = <<>> \/ key[3] = <<>> THEN b
        ELSE IF HasKey(b, key) THEN b
        ELSE BestSet(b, key, _weight(e))

add_edge_fact(b, e) ==
    LET key == FactKey(e)
        w == _weight(e)
    IN  IF key[1] = <<>> \/ key[2] = <<>> \/ key[3] = <<>> THEN b
        ELSE IF w > BestGet(b, key) THEN BestSet(b, key, w)
        ELSE b

\* one iteration of "for e in edges: if keep_edge(e): add_edge_fact(e)": the
\* dict afterwards, and whether keep_edge raised AttributeError
ProcessEdge(b, e, rs, mw) ==
    IF RelRaises(e) THEN [best |-> b, raised |-> TRUE]
    ELSE [best |-> IF keep_edge(e, rs, mw) THEN add_edge_fact(b, e) ELSE b, raised |-> FALSE]

\* the edge passes keep_edge and add_edge_fact finds its three labels
Accepted(e, rs, mw) ==
    /\ ~RelRaises(e)
    /\ keep_edge(e, rs, mw)
    /\ \A i \in 1..3 : FactKey(e)[i] # <<>>

(***************************************************************************)
(* REL_TEMPLATES and _edge_to_sentence                                     *)
(***************************************************************************)
IsA == <<"I","s","A">>

PartOf == <<"P","a","r","t","O","f">>

HasA == <<"H","a","s","A">>

UsedFor == <<"U","s","e","d","F","o","r">>

CapableOf == <<"C","a","p","a","b","l","e","O","f">>

ReceivesAction == <<"R","e","c","e","i","v","e","s","A","c","t","i","o","n">>

AtLocation == <<"A","t","L","o","c","a","t","i","o","n">>

LocatedNear == <<"L","o","c","a","t","e","d","N","e","a","r">>

HasProperty == <<"H","a","s","P","r","o","p","e","r","t","y">>

Antonym == <<"A","n","t","o","n","y","m">>

\* the object of the IsA template keeps its own "a ", "an " or "the "
IsAObject(o) ==
    IF \E d \in { <<"a"," ">>, <<"a","n"," ">>, <<"t","h","e"," ">> } : StartsWith(Lower(o), d)
    THEN o
    ELSE _maybe_article(o)

REL_TEMPLATES(rel, s, o) ==
    CASE rel = IsA -> _maybe_article(s) \o <<" ","i","s"," ">> \o IsAObject(o)
      [] rel = PartOf -> _maybe_article(s) \o <<" ","i","s"," ","p","a","r","t"," ","o","f"," ">> \o _maybe_article(o)
      [] rel = HasA -> _maybe_article(s) \o <<" ","h","a","s"," ">> \o _maybe_article(o)
      [] rel = UsedFor -> _maybe_article(s) \o <<" ","i","s"," ","u","s","e","d"," ","f","o","r"," ">> \o o
      [] rel = CapableOf -> _maybe_article(s) \o <<" ","c","a","n"," ">> \o o
      [] rel = ReceivesAction -> _maybe_article(s) \o <<" ","c","a","n"," ","b","e"," ">> \o o
      [] rel = AtLocation -> _maybe_article(s) \o <<" ","i","s"," ","o","f","t","e","n"," ","f","o","u","n","d"," ","i","n"," ">> \o _maybe_article(o)
      [] rel = LocatedNear -> _maybe_article(s) \o <<" ","i","s"," ","o","f","t","e","n"," ","n","e","a","r"," ">> \o _maybe_article(o)
      [] rel = HasProperty -> _maybe_article(s) \o <<" ","c","a","n"," ","b","e"," ">> \o o
      [] OTHER -> _maybe_article(s) \o <<" ">> \o rel \o <<" ">> \o o

\* the sentence before "sent[0]": an empty one makes sent[0] raise IndexError
CleanSentence(start, rel, end) ==
    Strip(CollapseWs(REL_TEMPLATES(rel, Strip(ReplaceUnderscore(start)),
                                   Strip(ReplaceUnderscore(end))), " "))

_edge_to_sentence(start, rel, end) ==
    LET sent == CleanSentence(start, rel, end)
    IN  <<UpperChar(sent[1])>> \o Tail(sent) \o <<".">>

(***************************************************************************)
(* sorted(best.items(), key=weight, reverse=True)[:max_facts]              *)
(***************************************************************************)
\* mutant: no sorting, the dict order is kept
InsertLast(sorted, x) == Append(sorted, x)

\* x goes behind every entry that is at least as heavy: the sort is stable
InsertDesc(sorted, x) ==
    LET n == Cardinality({i \in 1..Len(sorted) : sorted[i].w >= x.w})
    IN  SubSeq(sorted, 1, n) \o <<x>> \o SubSeq(sorted, n + 1, Len(sorted))

RECURSIVE SortDesc(_)
SortDesc(b) == IF b = <<>> THEN <<>> ELSE InsertDesc(SortDesc(SubSeq(b, 1, Len(b) - 1)), b[Len(b)])

\* seq[:m], for m negative too
SliceTo(seq, m) ==
    IF m >= 0 THEN SubSeq(seq, 1, IF m < Len(seq) THEN m ELSE Len(seq))
    ELSE SubSeq(seq, 1, IF Len(seq) + m > 0 THEN Len(seq) + m ELSE 0)

\* mutant: the slice is lost
RankUntruncated(b, m) == SortDesc(b)

Rank(b, m) == SliceTo(SortDesc(b), m)

RenderRaises(r) == \E i \in 1..Len(r) : CleanSentence(r[i].key[1], r[i].key[2], r[i].key[3]) = <<>>

Render(r) == [i \in 1..Len(r) |-> _edge_to_sentence(r[i].key[1], r[i].key[2], r[i].key[3])]

(***************************************************************************)
(* get_conceptnet_facts_for_image                                          *)
(***************************************************************************)
NoneVal == [t |-> "none"]

SetVal(S) == [t |-> "set", v |-> S]

\* rels = relations or DEFAULT_RELATIONS
RelsOf(r) == IF r.t = "none" \/ r.v = {} THEN DEFAULT_RELATIONS ELSE r.v

\* the loop "de-dup objects (preserve order)"
RECURSIVE DedupFrom(_, _, _)
DedupFrom(os, seen, acc) ==
    IF os = <<>> THEN acc
    ELSE LET o2 == Strip(Head(os))
         IN  IF o2 # <<>> /\ Lower(o2) \notin seen
             THEN DedupFrom(Tail(os), seen \cup {Lower(o2)}, Append(acc, o2))
             ELSE DedupFrom(Tail(os), seen, acc)

\* mutant: the seen set holds the objects as written, not lowercased
RECURSIVE DedupCaseSensitiveFrom(_, _, _)
DedupCaseSensitiveFrom(os, seen, acc) ==
    IF os = <<>> THEN acc
    ELSE LET o2 == Strip(Head(os))
         IN  IF o2 # <<>> /\ o2 \notin seen
             THEN DedupCaseSensitiveFrom(Tail(os), seen \cup {o2}, Append(acc, o2))
             ELSE DedupCaseSensitiveFrom(Tail(os), seen, acc)

DedupCaseSensitive(os) == DedupCaseSensitiveFrom(os, {}, <<>>)

DedupObjects(os) == DedupFrom(os, {}, <<>>)

\* combinations(range(1, n + 1), 2), in itertools order
RECURSIVE Combinations(_, _)
Combinations(i, n) ==
    IF i >= n THEN <<>>
    ELSE [j \in 1..(n - i) |-> <<i, i + j>>] \o Combinations(i + 1, n)

Pairs(os) == Combinations(1, Len(os))

\* the three URL shapes of lines 133, 134 and 143-145 (the limit parameters
\* only fill in the URL)
DebugUrl(o) == [kind |-> "debug", a |-> _to_en_uri(o), b |-> <<>>]

ObjectUrl(o) == [kind |-> "object", a |-> _to_en_uri(o), b |-> <<>>]

PairUrl(a, b) == [kind |-> "pair", a |-> _to_en_uri(a), b |-> _to_en_uri(b)]

\* what requests.get(...) can come back with: an exception ("fail"), a body
\* that is not JSON ("nonjson"), a JSON value that is no object ("list"), or a
\* JSON object whose "edges" is absent, null or a list
Bodies == {"fail", "nonjson", "list", "dict_absent", "dict_null", "dict_edges"}

Outcome(body) == IF body \in {"fail", "nonjson"} THEN body ELSE "json"

\* what "requests.get(url).json()" and "data.get(...)" raise on a body
FetchError(body) ==
    CASE body = "fail" -> "ConnectionError"
      [] body = "nonjson" -> "JSONDecodeError"
      [] body = "list" -> "AttributeError"
      [] OTHER -> "none"

\* an edge record misses a label: a node that is no object or has no label
\* and no @id, a relation that is no object or has no label
NodeUnlabelled(j) ==
    \/ j.t # "dict"
    \/ /\ j.label.t \in {"absent", "null"} \/ (j.label.t = "str" /\ j.label.v = <<>>)
       /\ j.id.t # "str"

RelUnlabelled(j) ==
    \/ j.t # "dict"
    \/ j.label.t \in {"absent", "null"}
    \/ (j.label.t = "str" /\ j.label.v = <<>>)

Unlabelled(e) == NodeUnlabelled(e.start) \/ RelUnlabelled(e.rel) \/ NodeUnlabelled(e.end)

UNCHANGED_args == UNCHANGED <<objects, relations, min_weight, max_facts, remote>>

UNCHANGED_other == UNCHANGED <<noun, articled, edgesA, edgesB, bestB, sentencesB>>

\* the exception leaves the function: nothing is returned
Raise(e) == pc' = "failed" /\ error' = e

\* the position after the per-object iteration idx
AfterObject ==
    IF idx < Len(objs) THEN pc' = "debug" /\ idx' = idx + 1
    ELSE IF Pairs(objs) # <<>> THEN pc' = "pair" /\ idx' = 1
    ELSE pc' = "rank" /\ idx' = idx

\* the position after the pairwise iteration idx
AfterPair ==
    IF idx < Len(Pairs(objs)) THEN pc' = "pair" /\ idx' = idx + 1
    ELSE pc' = "rank" /\ idx' = idx

\* lines 101-117
Start ==
    /\ pc = "start"
    /\ rels' = RelsOf(relations)
    /\ objs' = DedupObjects(objects)
    /\ best' = <<>>
    /\ IF DedupObjects(objects) = <<>>
       THEN idx' = 0 /\ pc' = "rank"
       ELSE idx' = 1 /\ pc' = "debug"
    /\ UNCHANGED <<consumed, error, ranked, sentences, requests, outcomes, lastEdge, accepted>>
    /\ UNCHANGED_args /\ UNCHANGED_other

\* line 133: print(requests.get(.../query?start=...)): the body is never read
DebugGet ==
    /\ pc = "debug"
    /\ \E body \in {"fail", "nonjson", "dict_edges"} :
          /\ requests' = Append(requests, DebugUrl(objs[idx]))
          /\ outcomes' = Append(outcomes, Outcome(body))
          /\ IF body = "fail" THEN Raise("ConnectionError")
             ELSE pc' = "object" /\ UNCHANGED error
    /\ UNCHANGED <<rels, objs, idx, consumed, best, ranked, sentences, lastEdge, accepted>>
    /\ UNCHANGED_args /\ UNCHANGED_other

\* lines 134 and 136: the per-object fetch, up to the loop over its edges
ObjectGet ==
    /\ pc = "object"
    /\ \E body \in Bodies :
          /\ requests' = Append(requests, ObjectUrl(objs[idx]))
          /\ outcomes' = Append(outcomes, Outcome(body))
          /\ IF FetchError(body) # "none" THEN Raise(FetchError(body)) /\ idx' = idx
             ELSE IF body = "dict_edges" THEN pc' = "object_edges" /\ UNCHANGED <<idx, error>>
             ELSE AfterObject /\ UNCHANGED error
    /\ consumed' = 0 /\ lastEdge' = "none"
    /\ UNCHANGED <<rels, objs, best, ranked, sentences, accepted>>
    /\ UNCHANGED_args /\ UNCHANGED_other

\* one iteration of a loop over the edges of a response (lines 136-138 and
\* 146-148): the next record is any record the service holds
EdgeStep(e) ==
    LET r == ProcessEdge(best, e, rels, min_weight)
    IN  /\ consumed < MaxEdges
        /\ consumed' = consumed + 1
        /\ best' = r.best
        /\ lastEdge' = IF Unlabelled(e) THEN "unlabelled" ELSE "labelled"
        /\ accepted' = IF Accepted(e, rels, min_weight)
                       THEN accepted \cup {[key |-> FactKey(e), w |-> _weight(e)]}
                       ELSE accepted
        /\ IF r.raised THEN Raise("AttributeError") ELSE UNCHANGED <<pc, error>>
        /\ UNCHANGED <<rels, objs, idx, ranked, sentences, requests, outcomes>>
        /\ UNCHANGED_args /\ UNCHANGED_other

\* lines 136-138
ObjectEdge == pc = "object_edges" /\ \E e \in remote : EdgeStep(e)

\* the loop of lines 136-138 is over
ObjectEdgesEnd ==
    /\ pc = "object_edges"
    /\ AfterObject
    /\ lastEdge' = "none"
    /\ UNCHANGED <<rels, objs, consumed, best, error, ranked, sentences, requests, outcomes, accepted>>
    /\ UNCHANGED_args /\ UNCHANGED_other

\* lines 141-146: the fetch of one pair, up to the loop over its edges
PairGet ==
    /\ pc = "pair"
    /\ \E body \in Bodies :
          LET p == Pairs(objs)[idx]
          IN  /\ requests' = Append(requests, PairUrl(objs[p[1]], objs[p[2]]))
              /\ outcomes' = Append(outcomes, Outcome(body))
              /\ IF FetchError(body) # "none" THEN Raise(FetchError(body)) /\ idx' = idx
                 ELSE IF body = "dict_edges" THEN pc' = "pair_edges" /\ UNCHANGED <<idx, error>>
                 ELSE AfterPair /\ UNCHANGED error
    /\ consumed' = 0 /\ lastEdge' = "none"
    /\ UNCHANGED <<rels, objs, best, ranked, sentences, accepted>>
    /\ UNCHANGED_args /\ UNCHANGED_other

\* lines 146-148
PairEdge == pc = "pair_edges" /\ \E e \in remote : EdgeStep(e)

\* the loop of lines 146-148 is over
PairEdgesEnd ==
    /\ pc = "pair_edges"
    /\ AfterPair
    /\ lastEdge' = "none"
    /\ UNCHANGED <<rels, objs, consumed, best, error, ranked, sentences, requests, outcomes, accepted>>
    /\ UNCHANGED_args /\ UNCHANGED_other

\* lines 150-153
Return ==
    /\ pc = "rank"
    /\ ranked' = Rank(best, max_facts)
    /\ IF RenderRaises(Rank(best, max_facts))
       THEN Raise("IndexError") /\ UNCHANGED sentences
       ELSE pc' = "done" /\ sentences' = Render(Rank(best, max_facts)) /\ UNCHANGED error
    /\ UNCHANGED <<rels, objs, idx, consumed, best, requests, outcomes, lastEdge, accepted>>
    /\ UNCHANGED_args /\ UNCHANGED_other

Next ==
    \/ Start
    \/ DebugGet
    \/ ObjectGet
    \/ ObjectEdge
    \/ ObjectEdgesEnd
    \/ PairGet
    \/ PairEdge
    \/ PairEdgesEnd
    \/ Return

(***************************************************************************)
(* Arguments and remote answers the runs are started with.                 *)
(***************************************************************************)
dog == <<"d","o","g">>

animal == <<"a","n","i","m","a","l">>

cat == <<"c","a","t">>

park == <<"p","a","r","k">>

hot == <<"h","o","t">>

cold == <<"c","o","l","d">>

Label(s) == JNode(JStr(s), Absent)

Fact(s, r, o, w) == JEdge(Label(s), JRel(JStr(r)), Label(o), JNum(w))

\* edge records with all three labels
GoodEdges ==
    { Fact(dog, IsA, animal, 1), Fact(dog, IsA, animal, 2), Fact(cat, IsA, animal, 2),
      Fact(hot, Antonym, cold, 1),
      \* no label but an @id, and a weight that is no number
      JEdge(JNode(Absent, JStr(<<"/","c","/","e","n","/","d","o","g","_","h","o","u","s","e">>)), JRel(JStr(AtLocation)), Label(park),
            JStr(<<"a","b","c">>)) }

\* edge records that miss a label: no start, no relation label, an empty end label
DroppedEdges ==
    { JEdge(Absent, JRel(JStr(IsA)), Label(animal), JNum(2)),
      JEdge(Label(dog), JRel(Absent), Label(park), JNum(2)),
      JEdge(Label(dog), JRel(JStr(IsA)), Label(<<>>), JNum(2)) }

\* an edge record whose "rel" is null instead of an object
BrokenRelEdges == { JEdge(Label(dog), Null, Label(animal), JNum(2)) }

EdgePool == GoodEdges \cup DroppedEdges \cup BrokenRelEdges

ObjectPool == { <<" ">>, dog, <<" ","D","o","g"," ">>, park, cat }

RelationArgs == {NoneVal, SetVal({}), SetVal({IsA, Antonym})}

DefaultMinWeight == 1

DefaultMaxFacts == 40

\* the locals and the histories before the first line runs
InitLocals ==
    /\ rels = {} /\ objs = <<>> /\ idx = 0 /\ consumed = 0 /\ best = <<>>
    /\ error = "none" /\ ranked = <<>> /\ sentences = <<>>
    /\ requests = <<>> /\ outcomes = <<>> /\ lastEdge = "none" /\ accepted = {}

InitUnused == noun = <<>> /\ articled = <<>> /\ edgesA = <<>> /\ edgesB = <<>> /\ bestB = <<>> /\ sentencesB = <<>>

\* every argument varies; the service answers with any records of EdgePool
Init ==
    /\ pc = "start"
    /\ objects \in {<<>>, <<dog>>, <<dog, park>>}
    /\ relations \in RelationArgs
    /\ min_weight \in 0..MaxMinWeight
    /\ max_facts \in -1..MaxFacts
    /\ remote = EdgePool
    /\ InitLocals /\ InitUnused

Spec == Init /\ [][Next]_vars

\* every objects argument; the other arguments at their defaults
InitObjects ==
    /\ pc = "start"
    /\ objects \in SeqsUpTo(ObjectPool, MaxObjs)
    /\ relations = NoneVal
    /\ min_weight = DefaultMinWeight
    /\ max_facts = DefaultMaxFacts
    /\ remote = {Fact(dog, IsA, animal, 2)}
    /\ InitLocals /\ InitUnused

SpecObjects == InitObjects /\ [][Next]_vars

(***************************************************************************)
(* _maybe_article on every short phrase.                                   *)
(***************************************************************************)
ArticleChars == {"a", "A", "t", "h", "e", "s", "u", " "}

InitArticle ==
    /\ pc = "article"
    /\ noun \in SeqsUpTo(ArticleChars, MaxLen)
    /\ articled = <<>>
    /\ objects = <<>> /\ relations = NoneVal /\ min_weight = DefaultMinWeight
    /\ max_facts = DefaultMaxFacts /\ remote = {}
    /\ InitLocals
    /\ edgesA = <<>> /\ edgesB = <<>> /\ bestB = <<>> /\ sentencesB = <<>>

MaybeArticle ==
    /\ pc = "article"
    /\ articled' = _maybe_article(noun)
    /\ pc' = "articled"
    /\ UNCHANGED <<objects, relations, min_weight, max_facts, remote, rels, objs, idx,
                   consumed, best, error, ranked, sentences, requests, outcomes, lastEdge,
                   accepted, noun, edgesA, edgesB, bestB, sentencesB>>

NextArticle == MaybeArticle

SpecArticle == InitArticle /\ [][NextArticle]_vars

(***************************************************************************)
(* Two runs of lines 136-153 on the same fetched edges, the second run     *)
(* meeting them in another order.                                          *)
(***************************************************************************)
OrderPool ==
    { Fact(dog, IsA, animal, 1), Fact(dog, IsA, animal, 2), Fact(cat, IsA, animal, 2),
      Fact(hot, Antonym, cold, 1) }

Reorderings(s) ==
    {[i \in 1..Len(s) |-> s[p[i]]] :
        p \in {q \in [1..Len(s) -> 1..Len(s)] : \A i, j \in 1..Len(s) : q[i] = q[j] => i = j}}

\* idx counts the edges the first run has processed, consumed those of the second
InitOrder ==
    /\ pc = "order"
    /\ edgesA \in SeqsUpTo(OrderPool, MaxOrderEdges)
    /\ edgesB \in Reorderings(edgesA)
    /\ relations \in {NoneVal, SetVal({IsA, Antonym})}
    /\ min_weight = DefaultMinWeight
    /\ max_facts \in 1..MaxFacts
    /\ objects = <<>> /\ remote = OrderPool
    /\ rels = RelsOf(relations) /\ objs = <<>> /\ idx = 0 /\ consumed = 0 /\ best = <<>>
    /\ error = "none" /\ ranked = <<>> /\ sentences = <<>>
    /\ requests = <<>> /\ outcomes = <<>> /\ lastEdge = "none" /\ accepted = {}
    /\ noun = <<>> /\ articled = <<>> /\ bestB = <<>> /\ sentencesB = <<>>

UNCHANGED_order ==
    UNCHANGED <<objects, relations, min_weight, max_facts, remote, rels, objs, error,
                requests, outcomes, lastEdge, accepted, noun, articled, edgesA, edgesB>>

\* the first run processes its next edge
OrderStepA ==
    /\ pc = "order" /\ idx < Len(edgesA)
    /\ best' = ProcessEdge(best, edgesA[idx + 1], rels, min_weight).best
    /\ idx' = idx + 1
    /\ UNCHANGED <<pc, consumed, bestB, ranked, sentences, sentencesB>>
    /\ UNCHANGED_order

\* the second run processes its next edge
OrderStepB ==
    /\ pc = "order" /\ idx = Len(edgesA) /\ consumed < Len(edgesB)
    /\ bestB' = ProcessEdge(bestB, edgesB[consumed + 1], rels, min_weight).best
    /\ consumed' = consumed + 1
    /\ UNCHANGED <<pc, idx, best, ranked, sentences, sentencesB>>
    /\ UNCHANGED_order

\* both runs rank and render (lines 150-153)
OrderReturn ==
    /\ pc = "order" /\ idx = Len(edgesA) /\ consumed = Len(edgesB)
    /\ ranked' = Rank(best, max_facts)
    /\ sentences' = Render(Rank(best, max_facts))
    /\ sentencesB' = Render(Rank(bestB, max_facts))
    /\ pc' = "ordered"
    /\ UNCHANGED <<idx, consumed, best, bestB>>
    /\ UNCHANGED_order

NextOrder == OrderStepA \/ OrderStepB \/ OrderReturn

SpecOrder == InitOrder /\ [][NextOrder]_vars

(***************************************************************************)
(* The claims.                                                             *)
(***************************************************************************)
Entries(b) == {b[i] : i \in 1..Len(b)}

Keys(b) == {b[i].key : i \in 1..Len(b)}

C2_BestHoldsMaxPerKey ==
    pc \in {"rank", "done"} =>
        /\ \A i, j \in 1..Len(best) : best[i].key = best[j].key => i = j
        /\ Keys(best) = {a.key : a \in accepted}
        /\ \A i \in 1..Len(best) :
              /\ [key |-> best[i].key, w |-> best[i].w] \in accepted
              /\ \A a \in accepted : a.key = best[i].key => a.w <= best[i].w
        /\ \A i, j \in 1..Len(ranked) : ranked[i].key = ranked[j].key => i = j

C2_Witness ==
    /\ pc = "rank"
    /\ \E i \in 1..Len(requests) : requests[i].kind = "pair"
    /\ \E a, b \in accepted : a.key = b.key /\ a.w < b.w
    /\ Len(best) >= 2

\* C3: the returned sentences render, position by position, facts of
\* non-increasing winning weight, and no fact left out by the truncation is
\* heavier than a fact kept.
C3_OrderedByWeight ==
    pc = "done" =>
        /\ Len(sentences) = Len(ranked)
        /\ \A i \in 1..Len(ranked) :
              /\ ranked[i] \in Entries(best)
              /\ sentences[i] = _edge_to_sentence(ranked[i].key[1], ranked[i].key[2], ranked[i].key[3])
        /\ \A i, j \in 1..Len(ranked) : i < j => ranked[i].w >= ranked[j].w
        /\ \A x \in Entries(best) \ Entries(ranked) : \A i \in 1..Len(ranked) : x.w <= ranked[i].w

C3_Witness ==
    /\ pc = "done"
    /\ Len(ranked) >= 2 /\ ranked[1].w > ranked[2].w
    /\ Len(best) > Len(ranked)
    /\ best[1].w < best[2].w

\* C4: a GET that fails or comes back with a body that is not JSON ends the
\* call with a propagated failure: it is the last GET, and nothing is returned.
C4_AnyFailedCallAborts ==
    \A i \in 1..Len(outcomes) :
        outcomes[i] \in {"fail", "nonjson"} =>
            /\ pc = "failed"
            /\ i = Len(requests)
            /\ sentences = <<>>

\* the set the caller allows: the default set only when relations is None
AllowedRelations == IF relations.t = "none" THEN DEFAULT_RELATIONS ELSE relations.v

\* C5: every fact kept has a relation of the set the caller allows (the default
\* set only when the caller passes none) and a weight of at least min_weight.
C5_OnlyAllowedRelations ==
    /\ \A i \in 1..Len(best) : best[i].key[2] \in AllowedRelations /\ best[i].w >= min_weight
    /\ \A i \in 1..Len(ranked) : ranked[i].key[2] \in AllowedRelations /\ ranked[i].w >= min_weight

\* the first position of objects whose trimmed, lowercased form is that of o
FirstOccurrence(o) ==
    CHOOSE i \in 1..Len(objects) :
        /\ Lower(Strip(objects[i])) = Lower(o)
        /\ \A j \in 1..(i - 1) : Lower(Strip(objects[j])) # Lower(o)

\* C6: the queried objects are the input deduplicated case-insensitively, first
\* occurrences (trimmed) in input order, every non-blank input represented.
C6_DedupFirstOccurrence ==
    pc # "start" =>
        /\ \A i, j \in 1..Len(objs) : Lower(objs[i]) = Lower(objs[j]) => i = j
        /\ \A k \in 1..Len(objs) :
              /\ \E i \in 1..Len(objects) : Lower(Strip(objects[i])) = Lower(objs[k])
              /\ objs[k] = Strip(objects[FirstOccurrence(objs[k])])
        /\ \A k, l \in 1..Len(objs) :
              k < l => FirstOccurrence(objs[k]) < FirstOccurrence(objs[l])
        /\ \A i \in 1..Len(objects) :
              (\E c \in 1..Len(objects[i]) : objects[i][c] \notin Whitespace) =>
                  \E k \in 1..Len(objs) : Lower(objs[k]) = Lower(Strip(objects[i]))

C6_Witness ==
    /\ pc # "start"
    /\ Len(objects) = 3 /\ Len(objs) = 2
    /\ objects[1] # objects[3] /\ Lower(Strip(objects[1])) = Lower(Strip(objects[3]))
    /\ objs[1] = Strip(objects[1]) /\ objs[1] # objects[1]

\* C7: reading an edge record that misses a label raises no error and leaves
\* best as it was, and the loop goes on.
C7_UnlabelledEdgeDropped ==
    [][(consumed' = consumed + 1 /\ lastEdge' = "unlabelled") =>
          (error' = "none" /\ pc' = pc /\ best' = best)]_vars

\* C8: a run that returns issued one GET per object and one per unordered
\* pair, every per-object GET before every pairwise GET.
C8_OneGetPerObjectAndPair ==
    pc = "done" =>
        /\ Len(requests) = Len(objs) + (Len(objs) * (Len(objs) - 1)) \div 2
        /\ \A k \in 1..Len(objs) :
              Cardinality({i \in 1..Len(requests) :
                              requests[i].kind # "pair" /\ requests[i].a = _to_en_uri(objs[k])}) = 1
        /\ \A i, j \in 1..Len(requests) :
              (requests[i].kind # "pair" /\ requests[j].kind = "pair") => i < j

\* C9 as stated: the same fetched edges in any order give the same list.
C9_SameOutputInAnyOrder == pc = "ordered" => sentences = sentencesB

Weights(r) == [i \in 1..Len(r) |-> r[i].w]

\* C9, amended: the same fetched edges in any order give the same facts with
\* the same winning weights and a list with the same weights position by
\* position; the list itself is the same when no two facts have equal weights
\* (facts of equal weight come out in the order their keys were first met).
C9_SameFactsInAnyOrder ==
    pc = "ordered" =>
        /\ Entries(best) = Entries(bestB)
        /\ Weights(Rank(best, max_facts)) = Weights(Rank(bestB, max_facts))
        /\ (\A i, j \in 1..Len(best) : best[i].w = best[j].w => i = j) => sentences = sentencesB

C9_Witness ==
    /\ pc = "ordered"
    /\ Len(best) >= 2 /\ best # bestB
    /\ \A i, j \in 1..Len(best) : best[i].w = best[j].w => i = j
    /\ \E i \in 1..Len(edgesA) : edgesA[i] # edgesB[i]
    /\ Len(sentences) >= 2 /\ sentences = sentencesB

DeterminerWords == { <<"a">>, <<"a","n">>, <<"t","h","e">>, <<"t","h","i","s">>, <<"t","h","a","t">>, <<"t","h","e","s","e">>, <<"t","h","o","s","e">> }

LooksPlural(l) == EndsWith(l, <<"s">>) /\ ~EndsWith(l, <<"s","s">>) /\ ~EndsWith(l, <<"u","s">>)

\* the word the phrase starts with: its characters up to the first space
FirstWord(l) ==
    IF \E i \in 1..Len(l) : l[i] \in Whitespace
    THEN SubSeq(l, 1, (CHOOSE i \in 1..Len(l) :
                          l[i] \in Whitespace /\ \A j \in 1..(i - 1) : l[j] \notin Whitespace) - 1)
    ELSE l

WithArticle(n) == (IF Lower(n)[1] \in {"a", "e", "i", "o", "u"} THEN <<"a","n"," ">> ELSE <<"a"," ">>) \o n

\* C10 as stated: the trimmed phrase comes back unchanged when it is empty,
\* starts with a determiner word or looks plural, and with "an "/"a " in front
\* otherwise.
C10_ArticleUnlessDeterminerWord ==
    pc = "articled" =>
        LET n == Strip(noun)
        IN  articled = IF n = <<>> \/ FirstWord(Lower(n)) \in DeterminerWords \/ LooksPlural(Lower(n))
                       THEN n ELSE WithArticle(n)

\* C10, amended: ... starts with a determiner word followed by a space (a
\* phrase that is only a determiner word, such as "the", gets an article) ...
C10_ArticleUnlessDeterminerAndSpace ==
    pc = "articled" =>
        LET n == Strip(noun)
        IN  articled = IF \/ n = <<>>
                          \/ \E d \in DeterminerWords : StartsWith(Lower(n), d \o <<" ">>)
                          \/ LooksPlural(Lower(n))
                       THEN n ELSE WithArticle(n)

C10_Witness ==
    /\ pc = "articled"
    /\ noun = <<"A"," ","h","a","t">>
    /\ articled = <<"A"," ","h","a","t">>

====
